---- MODULE Spec2Model ----
(***************************************************************************)
(* Transaction API (src/main.py): five HTTP handlers over one table,       *)
(* `transactions`.  Each handler runs in its own database session; the     *)
(* awaits on db.execute / db.commit / db.refresh are the points where      *)
(* concurrent requests interleave, so a handler is one action per database *)
(* round trip.                                                             *)
(***************************************************************************)
EXTENDS Integers, Sequences, FiniteSets, TLC

\* ---------------------------------------------------------------- bounds
\* uuid.uuid4() values handed out, hence rows ever inserted.
MaxIds == 2
\* Ticks of the database clock (func.now(), one-second resolution).
MaxTime == 1

\* Concurrent request handlers (sessions taken from the pool).
Procs == {"r1", "r2"}

\* ---------------------------------------------------------------- values
\* Python's None, for the optional string/number values.
None == "None"
\* result.scalar_one_or_none() returning None.
NoRow == [absent |-> TRUE]
\* A response that carries no transaction.
NoBody == [absent |-> TRUE]

TxTypes == {"trade", "purchase"}
Statuses == {"pending", "accepted", "rejected", "canceled", "completed"}
UpdateStatuses == {"accepted", "rejected", "canceled", "completed"}

\* Values of the X-Idempotency-Key header: absent, empty, a token.
HeaderValues == {None, "", "k1"}

\* Identifiers a client may ask for; MaxIds + 1 is never handed out.
Ids == 1 .. (MaxIds + 1)

\* NewTransactionRequest bodies the clients send.
Payloads ==
  { [ requested_item_id |-> "item1", initiator_user_id |-> "userA",
      receiver_user_id |-> "userB", type |-> ty,
      offered_item_id |-> IF ty = "trade" THEN "item9" ELSE None,
      offered_price |-> IF ty = "purchase" THEN "25.5" ELSE None,
      message |-> IF ty = "trade" THEN "hi" ELSE None,
      status |-> st ] : ty \in TxTypes, st \in {"pending", "completed"} }

\* Query strings the clients send.
Queries ==
  {[status |-> "completed"], [status_param |-> "completed"], [type |-> "trade"],
   [status_param |-> "pending", type |-> "purchase"],
   [limit |-> 1], [limit |-> 1, offset |-> 1], [limit |-> 0 - 1], [offset |-> 0 - 1],
   [none |-> TRUE]}

\* ---------------------------------------------------------------- state
VARIABLES
  table,   \* rows of `transactions`
  uuids,   \* number of uuid4 values generated so far
  now,     \* the database clock
  req,     \* per handler: position, arguments, locals, response
  clients  \* the requests the clients of this run send (fixed in Init)

vars == <<table, uuids, now, req, clients>>

\* Client populations: each run draws its requests from one of them, so that
\* the inputs a claim is about vary in full while the others stay small.
\*   keys, payloads, statuses, queries: the inputs of the requests;
\*   sessions: the handlers that serve them; ticks: how far the clock runs.
Workloads ==
  { [name |-> "idempotency", keys |-> HeaderValues,
     payloads |-> {p \in Payloads : p.type = "trade" /\ p.status = "pending"},
     statuses |-> {"accepted"}, queries |-> {},
     sessions |-> Procs, ticks |-> 0],
    [name |-> "status", keys |-> {None},
     payloads |-> {p \in Payloads : p.type = "purchase" /\ p.status = "pending"},
     statuses |-> UpdateStatuses, queries |-> {},
     sessions |-> {"r1"}, ticks |-> 0],
    [name |-> "timestamps", keys |-> {None},
     payloads |-> {p \in Payloads : p.type = "purchase" /\ p.status = "pending"},
     statuses |-> {"accepted"}, queries |-> {[none |-> TRUE]},
     sessions |-> {"r1"}, ticks |-> MaxTime],
    [name |-> "listing", keys |-> {None},
     payloads |-> Payloads,
     statuses |-> {}, queries |-> Queries,
     sessions |-> {"r1"}, ticks |-> MaxTime] }

\* A handler at rest.  db_transaction is the object a SELECT loaded (`existing`
\* in create_transaction), new_transaction the object create_transaction
\* builds; wrote records that a commit of this request changed the table.
Idle == [pc |-> "idle", op |-> "none", args |-> NoBody,
         db_transaction |-> NoRow, new_transaction |-> NoRow,
         wrote |-> FALSE, response |-> NoBody]

\* ---------------------------------------------------------------- models
\* Fields a Transaction must be given (Field(...) with no default).
TransactionRequired ==
  {"transaction_id", "requested_item_id", "initiator_user_id",
   "receiver_user_id", "type", "status", "created_at", "updated_at"}

\* Transaction(**kwargs): pydantic validation of the keyword arguments.
Transaction(kwargs) ==
  IF TransactionRequired \subseteq DOMAIN kwargs
  THEN [exc |-> None,
        value |-> [f \in DOMAIN kwargs \cup {"offered_item_id", "offered_price", "message"} |->
                     IF f \in DOMAIN kwargs THEN kwargs[f] ELSE None]]
  ELSE [exc |-> "ValidationError", value |-> NoBody]

db_to_transaction(db_transaction) ==
  Transaction([transaction_id |-> db_transaction.transaction_id,
               type |-> db_transaction.type,
               offered_price |-> db_transaction.offered_price,
               status |-> db_transaction.status,
               message |-> db_transaction.message,
               created_at |-> db_transaction.created_at,
               updated_at |-> db_transaction.updated_at])

\* `if x_idempotency_key:` -- None and the empty string are falsy.
Truthy(x_idempotency_key) == x_idempotency_key # None /\ x_idempotency_key # ""

\* result.scalar_one_or_none() over the rows a SELECT matched.
scalar_one_or_none(rows) ==
  IF rows = {} THEN [exc |-> None, row |-> NoRow]
  ELSE IF Cardinality(rows) = 1 THEN [exc |-> None, row |-> CHOOSE t \in rows : TRUE]
  ELSE [exc |-> "MultipleResultsFound", row |-> NoRow]

SelectByKey(tbl, key) == scalar_one_or_none({t \in tbl : t.idempotency_key = key})
SelectById(tbl, id) == scalar_one_or_none({t \in tbl : t.transaction_id = id})

\* Variant: the UNIQUE index on idempotency_key is missing.
UniqueViolationPrimaryKeyOnly(tbl, row) ==
  \E t \in tbl : t.transaction_id = row.transaction_id

\* Variant: the UNIQUE index treats NULL as a value like any other.
UniqueViolationNullCollides(tbl, row) ==
  \E t \in tbl : \/ t.transaction_id = row.transaction_id
                 \/ t.idempotency_key = row.idempotency_key

\* The table's constraints on INSERT: primary key, and UNIQUE on
\* idempotency_key (NULLs do not collide).
UniqueViolation(tbl, row) ==
  \E t \in tbl : \/ t.transaction_id = row.transaction_id
                 \/ /\ row.idempotency_key # None
                    /\ t.idempotency_key = row.idempotency_key

\* Variant: no `except HTTPException: raise` ahead of `except Exception`.
ExceptionResponseAlwaysServerError(exc) ==
  [status |-> 500, detail |-> exc, body |-> NoBody]

\* The handlers' except clauses: an HTTPException is re-raised as it is,
\* anything else becomes a 500 carrying str(e).
ExceptionResponse(exc) ==
  IF exc = "HTTPException"
  THEN [status |-> 404, detail |-> "Transaction not found", body |-> NoBody]
  ELSE [status |-> 500, detail |-> exc, body |-> NoBody]

\* `return db_to_transaction(x)` inside the try block.
Return(conv, code) ==
  IF conv.exc = None THEN [status |-> code, detail |-> "", body |-> conv.value]
  ELSE ExceptionResponse(conv.exc)

Finish(r, response) ==
  req' = [req EXCEPT ![r].pc = "done", ![r].response = response]

\* ---------------------------------------------------------------- create
\* POST /transactions/transaction, up to the first commit: the idempotency
\* lookup and the construction of the new row.  uuid.uuid4() is taken to give
\* a value never given before (the next of a counter).
create_transaction(r) ==
  /\ req[r].pc \in {"idle", "done"}
  /\ \E transaction \in clients.payloads, x_idempotency_key \in clients.keys :
       LET sel == IF Truthy(x_idempotency_key)
                  THEN SelectByKey(table, x_idempotency_key)
                  ELSE [exc |-> None, row |-> NoRow]
           start == [Idle EXCEPT !.op = "create",
                       !.args = [transaction |-> transaction,
                                 x_idempotency_key |-> x_idempotency_key],
                       !.db_transaction = sel.row]
       IN IF sel.exc # None
          THEN /\ req' = [req EXCEPT ![r] =
                            [start EXCEPT !.pc = "done",
                                          !.response = ExceptionResponse(sel.exc)]]
               /\ UNCHANGED <<table, uuids, now, clients>>
          ELSE IF sel.row # NoRow
          THEN /\ req' = [req EXCEPT ![r] =
                            [start EXCEPT !.pc = "done",
                               !.response = Return(db_to_transaction(sel.row), 201)]]
               /\ UNCHANGED <<table, uuids, now, clients>>
          ELSE /\ uuids < MaxIds
               /\ uuids' = uuids + 1
               /\ req' = [req EXCEPT ![r] =
                            [start EXCEPT !.pc = "commit",
                               !.new_transaction =
                                  [transaction_id |-> uuids + 1,
                                   type |-> transaction.type,
                                   offered_price |-> transaction.offered_price,
                                   status |-> transaction.status,
                                   message |-> transaction.message,
                                   idempotency_key |-> x_idempotency_key]]]
               /\ UNCHANGED <<table, now, clients>>

\* db.add(new_transaction); await db.commit(): the INSERT, with the server
\* defaults for the timestamps, or the rollback on a constraint violation.
create_transaction_commit(r) ==
  /\ req[r].pc = "commit" /\ req[r].op = "create"
  /\ LET new_transaction == req[r].new_transaction
     IN IF UniqueViolation(table, new_transaction)
        THEN /\ Finish(r, ExceptionResponse("IntegrityError"))
             /\ UNCHANGED <<table, uuids, now, clients>>
        ELSE /\ table' = table \cup
                  {[transaction_id |-> new_transaction.transaction_id,
                    type |-> new_transaction.type,
                    offered_price |-> new_transaction.offered_price,
                    status |-> new_transaction.status,
                    message |-> new_transaction.message,
                    idempotency_key |-> new_transaction.idempotency_key,
                    created_at |-> now,
                    updated_at |-> now]}
             /\ req' = [req EXCEPT ![r].pc = "refresh", ![r].wrote = TRUE]
             /\ UNCHANGED <<uuids, now, clients>>

\* await db.refresh(obj): the row of obj's primary key, read again.
Refresh(tbl, obj) ==
  LET sel == SelectById(tbl, obj.transaction_id)
  IN IF sel.exc = None /\ sel.row = NoRow
     THEN [exc |-> "InvalidRequestError", row |-> NoRow]
     ELSE sel

\* await db.refresh(new_transaction); return db_to_transaction(new_transaction)
create_transaction_refresh(r) ==
  /\ req[r].pc = "refresh" /\ req[r].op = "create"
  /\ LET fresh == Refresh(table, req[r].new_transaction)
     IN IF fresh.exc # None
        THEN Finish(r, ExceptionResponse(fresh.exc))
        ELSE req' = [req EXCEPT ![r].pc = "done",
                                ![r].new_transaction = fresh.row,
                                ![r].response = Return(db_to_transaction(fresh.row), 201)]
  /\ UNCHANGED <<table, uuids, now, clients>>

\* ---------------------------------------------------------------- get
\* GET /transactions/{transaction_id}
get_transaction(r) ==
  /\ req[r].pc \in {"idle", "done"}
  /\ \E transaction_id \in Ids :
       LET sel == SelectById(table, transaction_id)
           start == [Idle EXCEPT !.op = "get",
                       !.args = [transaction_id |-> transaction_id],
                       !.db_transaction = sel.row]
           response == IF sel.exc # None THEN ExceptionResponse(sel.exc)
                       ELSE IF sel.row = NoRow THEN ExceptionResponse("HTTPException")
                       ELSE Return(db_to_transaction(sel.row), 200)
       IN req' = [req EXCEPT ![r] = [start EXCEPT !.pc = "done", !.response = response]]
  /\ UNCHANGED <<table, uuids, now, clients>>

\* ---------------------------------------------------------------- list
\* The query string of GET /transactions.  FastAPI binds each parameter of
\* the handler by its own name: status_param, type, limit, offset.  A
\* parameter the query string does not carry takes the handler's default.
ListDefaults == [status_param |-> None, type |-> None, limit |-> 50, offset |-> 0]

Bind(query) ==
  [p \in DOMAIN ListDefaults |-> IF p \in DOMAIN query THEN query[p] ELSE ListDefaults[p]]

\* The sequences that hold every row of `rows` once, newest created_at first
\* (rows of equal created_at come in the storage engine's order).
RECURSIVE OrderByCreatedAtDesc(_)
OrderByCreatedAtDesc(rows) ==
  IF rows = {} THEN {<<>>}
  ELSE UNION { { <<t>> \o rest : rest \in OrderByCreatedAtDesc(rows \ {t}) } :
               t \in {u \in rows : \A v \in rows : v.created_at <= u.created_at} }

\* .limit(limit).offset(offset) applied to an ordered result.
LimitOffset(seq, limit, offset) ==
  SubSeq(seq, offset + 1,
         IF offset + limit < Len(seq) THEN offset + limit ELSE Len(seq))

\* [db_to_transaction(t) for t in db_transactions]
ConvertAll(seq) ==
  IF \E i \in 1 .. Len(seq) : db_to_transaction(seq[i]).exc # None
  THEN [exc |-> "ValidationError", value |-> NoBody]
  ELSE [exc |-> None, value |-> [i \in 1 .. Len(seq) |-> db_to_transaction(seq[i]).value]]

\* The rows the statement of list_transactions selects, before ordering.
ListWhere(tbl, p) ==
  {t \in tbl : /\ (p.status_param # None => t.status = p.status_param)
               /\ (p.type # None => t.type = p.type)}

\* GET /transactions
list_transactions(r) ==
  /\ req[r].pc \in {"idle", "done"}
  /\ \E query \in clients.queries :
       LET p == Bind(query)
           start == [Idle EXCEPT !.op = "list", !.args = [query |-> query]]
       IN IF p.limit < 0 \/ p.offset < 0
          THEN \* MySQL rejects a negative LIMIT / OFFSET
               req' = [req EXCEPT ![r] =
                         [start EXCEPT !.pc = "done",
                                       !.response = ExceptionResponse("ProgrammingError")]]
          ELSE \E ordered \in OrderByCreatedAtDesc(ListWhere(table, p)) :
                 req' = [req EXCEPT ![r] =
                           [start EXCEPT !.pc = "done",
                              !.response = Return(
                                 ConvertAll(LimitOffset(ordered, p.limit, p.offset)), 200)]]
  /\ UNCHANGED <<table, uuids, now, clients>>

\* ---------------------------------------------------------------- update
\* PUT /transactions/{transaction_id}, up to the commit: the SELECT and the
\* assignment to the loaded object.  db_transaction keeps the loaded values
\* (the session's committed state), args.payload.status the assigned one.
update_transaction(r) ==
  /\ req[r].pc \in {"idle", "done"}
  /\ \E transaction_id \in Ids, status \in clients.statuses :
       LET sel == SelectById(table, transaction_id)
           start == [Idle EXCEPT !.op = "update",
                       !.args = [transaction_id |-> transaction_id,
                                 payload |-> [status |-> status]],
                       !.db_transaction = sel.row]
       IN req' = [req EXCEPT ![r] =
                    IF sel.exc # None
                    THEN [start EXCEPT !.pc = "done", !.response = ExceptionResponse(sel.exc)]
                    ELSE IF sel.row = NoRow
                    THEN [start EXCEPT !.pc = "done",
                                       !.response = ExceptionResponse("HTTPException")]
                    ELSE [start EXCEPT !.pc = "commit"]]
  /\ UNCHANGED <<table, uuids, now, clients>>

\* Variant: updated_at has no onupdate=func.now().
update_transaction_commit_no_onupdate(r) ==
  /\ req[r].pc = "commit" /\ req[r].op = "update"
  /\ LET loaded == req[r].db_transaction
         status == req[r].args.payload.status
         rows == {t \in table : t.transaction_id = loaded.transaction_id}
     IN IF status = loaded.status
        THEN /\ req' = [req EXCEPT ![r].pc = "refresh"]
             /\ UNCHANGED table
        ELSE IF rows = {}
        THEN /\ Finish(r, ExceptionResponse("StaleDataError"))
             /\ UNCHANGED table
        ELSE /\ table' = (table \ rows) \cup {[t EXCEPT !.status = status] : t \in rows}
             /\ req' = [req EXCEPT ![r].pc = "refresh", ![r].wrote = TRUE]
  /\ UNCHANGED <<uuids, now, clients>>

\* Variant: the UPDATE has no WHERE transaction_id = ?.
update_transaction_commit_no_where(r) ==
  /\ req[r].pc = "commit" /\ req[r].op = "update"
  /\ LET loaded == req[r].db_transaction
         status == req[r].args.payload.status
         rows == {t \in table : t.transaction_id = loaded.transaction_id}
     IN IF status = loaded.status
        THEN /\ req' = [req EXCEPT ![r].pc = "refresh"]
             /\ UNCHANGED table
        ELSE IF rows = {}
        THEN /\ Finish(r, ExceptionResponse("StaleDataError"))
             /\ UNCHANGED table
        ELSE /\ table' = {[t EXCEPT !.status = status, !.updated_at = now] : t \in table}
             /\ req' = [req EXCEPT ![r].pc = "refresh", ![r].wrote = TRUE]
  /\ UNCHANGED <<uuids, now, clients>>

\* await db.commit(): the unit of work emits
\*   UPDATE transactions SET status=?, updated_at=now() WHERE transaction_id=?
\* only when the assigned status differs from the loaded one; an UPDATE that
\* matches no row raises StaleDataError.
update_transaction_commit(r) ==
  /\ req[r].pc = "commit" /\ req[r].op = "update"
  /\ LET loaded == req[r].db_transaction
         status == req[r].args.payload.status
         rows == {t \in table : t.transaction_id = loaded.transaction_id}
     IN IF status = loaded.status
        THEN /\ req' = [req EXCEPT ![r].pc = "refresh"]
             /\ UNCHANGED table
        ELSE IF rows = {}
        THEN /\ Finish(r, ExceptionResponse("StaleDataError"))
             /\ UNCHANGED table
        ELSE /\ table' = (table \ rows) \cup
                           {[t EXCEPT !.status = status, !.updated_at = now] : t \in rows}
             /\ req' = [req EXCEPT ![r].pc = "refresh", ![r].wrote = TRUE]
  /\ UNCHANGED <<uuids, now, clients>>

\* await db.refresh(db_transaction); return db_to_transaction(db_transaction)
update_transaction_refresh(r) ==
  /\ req[r].pc = "refresh" /\ req[r].op = "update"
  /\ LET fresh == Refresh(table, req[r].db_transaction)
     IN IF fresh.exc # None
        THEN Finish(r, ExceptionResponse(fresh.exc))
        ELSE req' = [req EXCEPT ![r].pc = "done",
                                ![r].db_transaction = fresh.row,
                                ![r].response = Return(db_to_transaction(fresh.row), 200)]
  /\ UNCHANGED <<table, uuids, now, clients>>

\* ---------------------------------------------------------------- delete
\* DELETE /transactions/{transaction_id}.  The snapshot is converted before
\* db.delete is reached, so the SELECT, the conversion and the delete with its
\* commit are one step here.
delete_transaction(r) ==
  /\ req[r].pc \in {"idle", "done"}
  /\ \E transaction_id \in Ids :
       LET sel == SelectById(table, transaction_id)
           start == [Idle EXCEPT !.op = "delete",
                       !.args = [transaction_id |-> transaction_id],
                       !.db_transaction = sel.row]
           transaction_data == db_to_transaction(sel.row)
       IN IF sel.exc # None
          THEN /\ req' = [req EXCEPT ![r] =
                            [start EXCEPT !.pc = "done",
                                          !.response = ExceptionResponse(sel.exc)]]
               /\ UNCHANGED table
          ELSE IF sel.row = NoRow
          THEN /\ req' = [req EXCEPT ![r] =
                            [start EXCEPT !.pc = "done",
                                          !.response = ExceptionResponse("HTTPException")]]
               /\ UNCHANGED table
          ELSE IF transaction_data.exc # None
          THEN /\ req' = [req EXCEPT ![r] =
                            [start EXCEPT !.pc = "done",
                               !.response = ExceptionResponse(transaction_data.exc)]]
               /\ UNCHANGED table
          ELSE /\ table' = {t \in table : t.transaction_id # transaction_id}
               /\ req' = [req EXCEPT ![r] =
                            [start EXCEPT !.pc = "done", !.wrote = TRUE,
                               !.response = Return(transaction_data, 200)]]
  /\ UNCHANGED <<uuids, now, clients>>

\* ---------------------------------------------------------------- clock
Tick ==
  /\ now < clients.ticks
  /\ now' = now + 1
  /\ UNCHANGED <<table, uuids, req, clients>>

Init ==
  /\ table = {}
  /\ uuids = 0
  /\ now = 0
  /\ req = [r \in Procs |-> Idle]
  /\ clients \in Workloads

Next ==
  \/ \E r \in clients.sessions : create_transaction(r)
  \/ \E r \in clients.sessions : create_transaction_commit(r)
  \/ \E r \in clients.sessions : create_transaction_refresh(r)
  \/ \E r \in clients.sessions : get_transaction(r)
  \/ \E r \in clients.sessions : list_transactions(r)
  \/ \E r \in clients.sessions : update_transaction(r)
  \/ \E r \in clients.sessions : update_transaction_commit(r)
  \/ \E r \in clients.sessions : update_transaction_refresh(r)
  \/ \E r \in clients.sessions : delete_transaction(r)
  \/ Tick

Spec == Init /\ [][Next]_vars

\* ======================================================== properties
TableIds(tbl) == {t.transaction_id : t \in tbl}
KeyRows(tbl, key) == {t \in tbl : t.idempotency_key = key}
RowOf(tbl, id) == CHOOSE t \in tbl : t.transaction_id = id

\* Handler r takes a step / takes the first step of a request `op`.
Stepped(r) == req'[r] # req[r]
Starting(r, op) == Stepped(r) /\ req[r].pc \in {"idle", "done"} /\ req'[r].op = op
Done(r, op) == req[r].pc = "done" /\ req[r].op = op

\* Fields of the create payload a Transaction response carries back.
SubmittedFields ==
  {"requested_item_id", "initiator_user_id", "receiver_user_id", "type",
   "offered_item_id", "offered_price", "message", "status"}

\* C1 (as claimed): a create whose non-null idempotency key K already has a
\* row answers 201 with that row's transaction_id, writes nothing, and K
\* keeps exactly one row.
C1_IdempotentReplay ==
  [][\A r \in Procs :
       (/\ Starting(r, "create")
        /\ req'[r].args.x_idempotency_key # None
        /\ KeyRows(table, req'[r].args.x_idempotency_key) # {})
       => /\ req'[r].pc = "done"
          /\ req'[r].response.status = 201
          /\ req'[r].response.body.transaction_id
               \in TableIds(KeyRows(table, req'[r].args.x_idempotency_key))
          /\ table' = table
          /\ Cardinality(KeyRows(table', req'[r].args.x_idempotency_key)) = 1]_vars

\* C2 (as claimed): a create that looked its key K up, found nothing, and
\* then loses the INSERT to a concurrent create with K does not end in an
\* error; its response carries the winner's transaction_id.
C2_ConcurrentCreateNoError ==
  [][\A r \in Procs :
       (/\ Stepped(r)
        /\ req[r].op = "create" /\ req[r].pc = "commit"
        /\ Truthy(req[r].args.x_idempotency_key)
        /\ KeyRows(table, req[r].args.x_idempotency_key) # {}
        /\ req'[r].pc = "done")
       => /\ req'[r].response.status = 201
          /\ req'[r].response.body.transaction_id
               \in TableIds(KeyRows(table, req[r].args.x_idempotency_key))]_vars

\* C3: in every reachable state no two rows share a non-null
\* idempotency_key.
C3_UniqueIdempotencyKey ==
  \A t1, t2 \in table :
    (t1.idempotency_key # None /\ t1.idempotency_key = t2.idempotency_key) => t1 = t2

\* C3 witness: a create has lost its INSERT on the uniqueness constraint
\* while the row holding its key stands in the table.
C3_Witness ==
  \E r \in Procs :
    /\ Done(r, "create")
    /\ req[r].response.detail = "IntegrityError"
    /\ req[r].args.x_idempotency_key # None
    /\ KeyRows(table, req[r].args.x_idempotency_key) # {}

\* C4 (as claimed): a create that inserted its row returns 201 with the
\* submitted fields, and a get of that id, the row not updated since,
\* returns 200 with the submitted fields.
C4_GetAfterCreate ==
  /\ \A r \in Procs :
       (Done(r, "create") /\ req[r].wrote)
       => /\ req[r].response.status = 201
          /\ \A f \in SubmittedFields :
               req[r].response.body[f] = req[r].args.transaction[f]
  /\ \A r, g \in Procs :
       (/\ Done(r, "create") /\ req[r].wrote
        /\ Done(g, "get")
        /\ g # r
        /\ req[g].args.transaction_id = req[r].new_transaction.transaction_id
        /\ req[g].db_transaction = req[r].new_transaction)
       => /\ req[g].response.status = 200
          /\ \A f \in SubmittedFields :
               req[g].response.body[f] = req[r].args.transaction[f]

\* C5 (as claimed): a delete of an id that has a row answers 200 with that
\* row's data and leaves no row of that id (so a following get is 404).
C5_DeleteThenGet ==
  [][\A r \in Procs :
       (/\ Starting(r, "delete")
        /\ req'[r].args.transaction_id \in TableIds(table))
       => /\ req'[r].response.status = 200
          /\ req'[r].response.body.transaction_id = req'[r].args.transaction_id
          /\ req'[r].response.body.status
               = RowOf(table, req'[r].args.transaction_id).status
          /\ req'[r].args.transaction_id \notin TableIds(table')]_vars

\* C6 (as claimed): an update-status that found its row answers 200 with a
\* body carrying the new status, and a get that reads the row as it was
\* returned shows the new status.
C6_UpdateOverwrites ==
  /\ \A r \in Procs :
       (Done(r, "update") /\ req[r].db_transaction # NoRow)
       => /\ req[r].response.status = 200
          /\ req[r].response.body.status = req[r].args.payload.status
  /\ \A r, g \in Procs :
       (/\ Done(r, "update") /\ req[r].db_transaction # NoRow
        /\ Done(g, "get")
        /\ g # r
        /\ req[g].db_transaction = req[r].db_transaction)
       => /\ req[g].response.status = 200
          /\ req[g].response.body.status = req[r].args.payload.status

\* C7: a get, update-status or delete of an id that no row has answers 404
\* and leaves the table as it was.
C7_NotFound ==
  [][\A r \in Procs :
       (/\ \/ Starting(r, "get") \/ Starting(r, "update") \/ Starting(r, "delete")
        /\ req'[r].args.transaction_id \notin TableIds(table))
       => /\ req'[r].pc = "done"
          /\ req'[r].response.status = 404
          /\ table' = table]_vars

\* C7 witness: an update-status and a delete have both been answered 404.
C7_Witness ==
  \E r, g \in Procs :
    /\ Done(r, "update") /\ req[r].response.status = 404
    /\ Done(g, "delete") /\ req[g].response.status = 404
    /\ req[g].args.transaction_id \notin TableIds(table)

\* The filters of a list request as the interface names them: `status`
\* and `type`.
MatchesQuery(t, query) ==
  /\ ("status" \in DOMAIN query => t.status = query.status)
  /\ ("type" \in DOMAIN query => t.type = query.type)

\* C8 (as claimed): a list request that carries only `status` / `type`
\* filters (limit and offset at their defaults, the table shorter than the
\* limit) answers 200 with exactly the rows that satisfy every filter.
C8_ListFilter ==
  [][\A r \in Procs :
       (/\ Starting(r, "list")
        /\ DOMAIN req'[r].args.query \subseteq {"status", "type", "none"}
        /\ Cardinality(table) <= ListDefaults.limit)
       => /\ req'[r].response.status = 200
          /\ {req'[r].response.body[i].transaction_id :
                i \in DOMAIN req'[r].response.body}
               = TableIds({t \in table : MatchesQuery(t, req'[r].args.query)})]_vars

\* C9 (as claimed): a create, update-status or delete that is answered with
\* an error has changed nothing in the table.
C9_FailureAtomicity ==
  \A r \in Procs :
    (/\ req[r].pc = "done"
     /\ req[r].op \in {"create", "update", "delete"}
     /\ req[r].response.status >= 400)
    => ~ req[r].wrote

\* C10: a create without idempotency key never takes the replay path, draws
\* an id no row has, and its commit adds exactly one row, of that id.
C10_CreateWithoutKey ==
  [][\A r \in Procs :
       /\ (Starting(r, "create") /\ req'[r].args.x_idempotency_key = None)
          => /\ req'[r].pc = "commit"
             /\ req'[r].new_transaction.transaction_id \notin TableIds(table)
             /\ \A o \in Procs \ {r} :
                  req[o].new_transaction # NoRow
                  => req[o].new_transaction.transaction_id
                       # req'[r].new_transaction.transaction_id
       /\ (/\ Stepped(r)
           /\ req[r].op = "create" /\ req[r].pc = "commit"
           /\ req[r].args.x_idempotency_key = None)
          => /\ req'[r].pc = "refresh"
             /\ Cardinality(table') = Cardinality(table) + 1
             /\ table \subseteq table'
             /\ TableIds(table' \ table) = {req[r].new_transaction.transaction_id}
             /\ req[r].new_transaction.transaction_id \notin TableIds(table)]_vars

\* C10 witness: two creates without key have put two rows of distinct ids
\* in the table.
C10_Witness ==
  /\ \E r \in Procs :
       Done(r, "create") /\ req[r].args.x_idempotency_key = None /\ req[r].wrote
  /\ \E t1, t2 \in table :
       /\ t1.transaction_id # t2.transaction_id
       /\ t1.idempotency_key = None /\ t2.idempotency_key = None

\* The rows of the ids of a response body, in its order.
BodyIds(body) == [i \in DOMAIN body |-> body[i].transaction_id]

\* C11 (as claimed): a list request with limit >= 0 and offset >= 0 (50 and
\* 0 when not given) answers 200 with the rows matching its filters, newest
\* created_at first, the first `offset` skipped and at most `limit` kept.
C11_ListOrderAndPage ==
  [][\A r \in Procs :
       (/\ Starting(r, "list")
        /\ DOMAIN req'[r].args.query \subseteq {"status", "type", "limit", "offset", "none"}
        /\ Bind(req'[r].args.query).limit >= 0
        /\ Bind(req'[r].args.query).offset >= 0)
       => /\ req'[r].response.status = 200
          /\ \E ordered \in OrderByCreatedAtDesc(
                  {t \in table : MatchesQuery(t, req'[r].args.query)}) :
               BodyIds(req'[r].response.body)
                 = [i \in DOMAIN LimitOffset(ordered, Bind(req'[r].args.query).limit,
                                             Bind(req'[r].args.query).offset) |->
                      LimitOffset(ordered, Bind(req'[r].args.query).limit,
                                  Bind(req'[r].args.query).offset)[i].transaction_id]]_vars

\* The commit of update-status request r goes through in this step.
UpdateCommitted(r) ==
  /\ req[r].op = "update" /\ req[r].pc = "commit" /\ req'[r].pc = "refresh"
  /\ req[r].db_transaction.transaction_id \in TableIds(table)

\* C12 (as claimed): every update-status that commits, the old and the new
\* status equal or not, leaves the row with updated_at at the time of the
\* update, strictly greater than before, and created_at as it was.
C12_UpdatedAtStrictlyGreater ==
  [][\A r \in Procs :
       UpdateCommitted(r)
       => LET id == req[r].db_transaction.transaction_id
          IN /\ RowOf(table', id).updated_at = now
             /\ RowOf(table', id).updated_at > RowOf(table, id).updated_at
             /\ RowOf(table', id).created_at = RowOf(table, id).created_at]_vars

\* C12 (amended): an update-status that commits a status other than the one
\* it loaded leaves the row with updated_at at the database time of the
\* update, not less than before, and created_at as it was; one that assigns
\* the status it loaded leaves updated_at as it was.
C12_UpdatedAtRefreshedOnChange ==
  [][\A r \in Procs :
       UpdateCommitted(r)
       => LET id == req[r].db_transaction.transaction_id
          IN /\ RowOf(table', id).created_at = RowOf(table, id).created_at
             /\ IF req[r].args.payload.status # req[r].db_transaction.status
                THEN /\ RowOf(table', id).updated_at = now
                     /\ RowOf(table', id).updated_at >= RowOf(table, id).updated_at
                ELSE RowOf(table', id).updated_at = RowOf(table, id).updated_at]_vars

\* C12 witness: an update-status has written a row after the clock moved
\* on from the row's creation.
C12_Witness ==
  \E r \in Procs : \E t \in table :
    /\ req[r].op = "update" /\ req[r].wrote
    /\ t.transaction_id = req[r].db_transaction.transaction_id
    /\ t.status = req[r].args.payload.status
    /\ t.updated_at > t.created_at

\* Columns an update-status leaves alone.
FrameFields ==
  {"transaction_id", "type", "offered_price", "message", "idempotency_key", "created_at"}

\* C13: an update-status step changes only status and updated_at of the row
\* of its id; the first step of a get, a list or a create (the replay
\* included) changes no row; a delete takes no row of another id away and
\* changes none.
C13_Frame ==
  [][\A r \in Procs :
       /\ (Stepped(r) /\ req[r].op = "update" /\ req[r].pc \in {"commit", "refresh"})
          => /\ TableIds(table') = TableIds(table)
             /\ \A t \in table :
                  IF t.transaction_id = req[r].args.transaction_id
                  THEN \A f \in FrameFields :
                         RowOf(table', t.transaction_id)[f] = t[f]
                  ELSE t \in table'
       /\ (Starting(r, "get") \/ Starting(r, "list") \/ Starting(r, "create")
           \/ Starting(r, "update"))
          => table' = table
       /\ Starting(r, "delete")
          => /\ table' \subseteq table
             /\ \A t \in table \ table' :
                  t.transaction_id = req'[r].args.transaction_id]_vars

\* C13 witness: an update-status has written its row while another row,
\* still pending, stands in the table.
C13_Witness ==
  \E r \in Procs : \E t, u \in table :
    /\ req[r].op = "update" /\ req[r].wrote
    /\ t.transaction_id = req[r].args.transaction_id
    /\ t.status = req[r].args.payload.status
    /\ u.transaction_id # t.transaction_id
    /\ u.status = "pending"

\* C15 (as claimed): a list request with a negative limit or offset is
\* answered with a client (validation) error.
C15_NegativePaginationRejected ==
  [][\A r \in Procs :
       (/\ Starting(r, "list")
        /\ \/ Bind(req'[r].args.query).limit < 0
           \/ Bind(req'[r].args.query).offset < 0)
       => /\ req'[r].response.status >= 400
          /\ req'[r].response.status < 500]_vars

\* C16 (as claimed): a create whose header value K, the empty string
\* included, already has a row takes the replay path: it draws no new id and
\* goes to no INSERT.
C16_LookupCoversStoredKeys ==
  [][\A r \in Procs :
       (/\ Starting(r, "create")
        /\ req'[r].args.x_idempotency_key # None
        /\ KeyRows(table, req'[r].args.x_idempotency_key) # {})
       => /\ req'[r].pc = "done"
          /\ req'[r].db_transaction
               \in KeyRows(table, req'[r].args.x_idempotency_key)
          /\ uuids' = uuids]_vars

====
